---- MODULE Spec2Model ----
(***************************************************************************)
(* AS_TASK1.py: a Tkinter application that lets the user pick an image     *)
(* file and run it through a face detector and an image classifier.        *)
(*                                                                         *)
(* Texts are TLA+ strings (sequences of characters); "\n" is the newline.  *)
(* The third-party collaborators (file dialog, face_recognition, Keras)    *)
(* are opaque: every call to one of them is a nondeterministic outcome,    *)
(* either a returned value or a raised exception.                          *)
(***************************************************************************)
EXTENDS Integers, Sequences, FiniteSets, TLC

VARIABLES
    attrs,        \* instance attributes of the Application set after __init__
    text_output,  \* content inserted into the tk.Text widget
    dialogs,      \* messagebox.showerror calls made by the last callback
    model_calls,  \* run_model calls made by the last callback
    last,         \* the last callback: its name, its inputs, its result
    escaped,      \* the exception that left the last callback, or NoExc
    nActions      \* number of callbacks run so far

vars == <<attrs, text_output, dialogs, model_calls, last, escaped, nActions>>

----------------------------------------------------------------------------
\* Bounds of the model.

\* Callbacks run in one behaviour of the application.
MaxActions == 3

\* Faces in one detection result.
MaxFaces == 2

\* Scores are drawn from the dyadic rationals n / 2^ScoreBits.
ScoreBits == 5

\* decode_predictions(preds, top=3)
TopK == 3

----------------------------------------------------------------------------
\* Strings.

NL == "\n"

Char(s, i) == SubSeq(s, i, i)

UpperCase == "ABCDEFGHIJKLMNOPQRSTUVWXYZ"
LowerCase == "abcdefghijklmnopqrstuvwxyz"

\* Case folding of one character, as re.IGNORECASE compares ASCII letters.
LowerChar(c) ==
    IF \E i \in 1..Len(UpperCase) : Char(UpperCase, i) = c
    THEN LET i == CHOOSE i \in 1..Len(UpperCase) : Char(UpperCase, i) = c
         IN  Char(LowerCase, i)
    ELSE c

Digits == "0123456789"

RECURSIVE NatStr(_)
NatStr(n) ==
    IF n < 10 THEN Char(Digits, n + 1)
    ELSE NatStr(n \div 10) \o Char(Digits, (n % 10) + 1)

\* str(int) / f"{int}": decimal digits, a leading "-" for negatives.
IntStr(n) == IF n < 0 THEN "-" \o NatStr(0 - n) ELSE NatStr(n)

\* "\n".join(lines)
RECURSIVE Join(_)
Join(lines) ==
    IF Len(lines) = 0 THEN ""
    ELSE IF Len(lines) = 1 THEN lines[1]
    ELSE lines[1] \o NL \o Join(Tail(lines))

----------------------------------------------------------------------------
\* Exceptions.

NoExc == [cls |-> "None", msg |-> ""]

Exc(cls, msg) == [cls |-> cls, msg |-> msg]

\* The classes an exception class derives from (itself included).
Bases(cls) ==
    CASE cls = "FileNotFoundError" -> {"FileNotFoundError", "OSError", "Exception"}
      [] cls = "UnidentifiedImageError" -> {"UnidentifiedImageError", "OSError", "Exception"}
      [] cls = "ValueError" -> {"ValueError", "Exception"}
      [] cls = "AttributeError" -> {"AttributeError", "Exception"}
      [] cls = "TclError" -> {"TclError", "Exception"}
      [] cls = "RuntimeError" -> {"RuntimeError", "Exception"}
      [] OTHER -> {cls}

\* isinstance(e, cls), the test an `except cls` clause makes.
IsInstance(e, cls) == e # NoExc /\ cls \in Bases(e.cls)

\* The outcome of a call: a returned value, or a raised exception.
Return(v) == [raised |-> NoExc, value |-> v]
Raise(e) == [raised |-> e, value |-> ""]

----------------------------------------------------------------------------
\* FacialRecognitionModel.run_model

\* A variant that prints the box in (top, left, bottom, right) order.
FaceResultLine_LeftRightSwapped(box) ==
    "Top: " \o IntStr(box[1]) \o ", Right: " \o IntStr(box[4])
        \o ", Bottom: " \o IntStr(box[3]) \o ", Left: " \o IntStr(box[2])

\* f"Top: {top}, Right: {right}, Bottom: {bottom}, Left: {left}"
\* for top, right, bottom, left in face_locations
FaceResultLine(box) ==
    "Top: " \o IntStr(box[1]) \o ", Right: " \o IntStr(box[2])
        \o ", Bottom: " \o IntStr(box[3]) \o ", Left: " \o IntStr(box[4])

\* The try body: load the image, locate the faces, format them.
\* up.exc is what face_recognition raises (NoExc when it raises nothing),
\* up.locations the (top, right, bottom, left) tuples it returns.
FaceBody(up) ==
    IF up.exc # NoExc THEN Raise(up.exc)
    ELSE IF Len(up.locations) = 0 THEN Return("No face found")
    ELSE Return(Join([i \in 1..Len(up.locations) |-> FaceResultLine(up.locations[i])]))

FileNotFoundText == "Error: File not found. Please select a valid image file."

\* A variant whose `except Exception` clause comes first.
FaceExcept_GenericFirst(body) ==
    IF body.raised = NoExc THEN body
    ELSE IF IsInstance(body.raised, "Exception")
         THEN Return("Error in Facial Recognition: " \o body.raised.msg)
    ELSE IF IsInstance(body.raised, "FileNotFoundError") THEN Return(FileNotFoundText)
    ELSE body

\* except FileNotFoundError: ... except Exception as e: ...
FaceExcept(body) ==
    IF body.raised = NoExc THEN body
    ELSE IF IsInstance(body.raised, "FileNotFoundError") THEN Return(FileNotFoundText)
    ELSE IF IsInstance(body.raised, "Exception")
         THEN Return("Error in Facial Recognition: " \o body.raised.msg)
    ELSE body

FacialRecognitionModel_run_model(up) == FaceExcept(FaceBody(up))

----------------------------------------------------------------------------
\* ImageClassificationModel

\* A score is the rational num / den.  pred[2] * 100:
Times100(score) == [num |-> score.num * 100, den |-> score.den]

\* a / b rounded to the nearest integer, ties to the even one (a >= 0, b > 0).
RoundHalfEven(a, b) ==
    LET q == a \div b
        r == a % b
    IN  IF 2 * r < b THEN q
        ELSE IF 2 * r > b THEN q + 1
        ELSE IF q % 2 = 0 THEN q ELSE q + 1

\* A variant that drops the digits after the second decimal.
Format2f_Truncating(x) ==
    LET h == (x.num * 100) \div x.den
    IN  NatStr(h \div 100) \o "." \o NatStr((h % 100) \div 10) \o NatStr(h % 10)

\* format(x, ".2f") for x >= 0: the decimal with two fractional digits
\* nearest to x, the tie going to the even last digit.
Format2f(x) ==
    LET h == RoundHalfEven(x.num * 100, x.den)
    IN  NatStr(h \div 100) \o "." \o NatStr((h % 100) \div 10) \o NatStr(h % 10)

\* f"{pred[1]}: {pred[2] * 100:.2f}%"; a prediction is
\* (class id, class name, score), here a record.
ClassificationLine(pred) ==
    pred.name \o ": " \o Format2f(Times100(pred.score)) \o "%"

\* __init__: self.model is set only when ResNet50(...) raises nothing;
\* otherwise a "Model Load Error" dialog is shown and no attribute is set.
ImageClassificationModel_init(load) ==
    [self |-> IF load = NoExc THEN [model |-> "ResNet50"] ELSE << >>,
     dialogs |-> IF IsInstance(load, "Exception")
                 THEN << [title |-> "Model Load Error",
                          message |-> "Error loading ResNet50 model: " \o load.msg] >>
                 ELSE << >>,
     raised |-> IF load # NoExc /\ ~IsInstance(load, "Exception") THEN load ELSE NoExc]

NoModelAttribute ==
    Exc("AttributeError", "'ImageClassificationModel' object has no attribute 'model'")

\* The try body: load and preprocess the image, predict, decode, format.
\* up.load_img is what image.load_img raises, up.predict what predict or
\* decode_predictions raises, up.decoded the decoded predictions.
ClassificationBody(self, up) ==
    IF up.load_img # NoExc THEN Raise(up.load_img)
    ELSE IF "model" \notin DOMAIN self THEN Raise(NoModelAttribute)
    ELSE IF up.predict # NoExc THEN Raise(up.predict)
    ELSE Return(Join([i \in 1..Len(up.decoded) |-> ClassificationLine(up.decoded[i])]))

\* except FileNotFoundError: ... except Exception as e: ...
ClassificationExcept(body) ==
    IF body.raised = NoExc THEN body
    ELSE IF IsInstance(body.raised, "FileNotFoundError") THEN Return(FileNotFoundText)
    ELSE IF IsInstance(body.raised, "Exception")
         THEN Return("Error in Image Classification: " \o body.raised.msg)
    ELSE body

ImageClassificationModel_run_model(self, up) ==
    ClassificationExcept(ClassificationBody(self, up))

----------------------------------------------------------------------------
\* Application

\* hasattr(obj, name)
HasAttr(obj, name) == name \in DOMAIN obj

\* obj.name: the value, or AttributeError when the attribute is not set.
GetAttr(obj, name) ==
    IF name \in DOMAIN obj THEN Return(obj[name])
    ELSE Raise(Exc("AttributeError",
                   "'_tkinter.tkapp' object has no attribute '" \o name \o "'"))

\* obj.name = v
SetAttr(obj, name, v) ==
    [n \in (DOMAIN obj) \cup {name} |-> IF n = name THEN v ELSE obj[n]]

\* A variant that keeps the previous path when the dialog returns "".
StoreImagePath_KeepOnEmpty(obj, picked) ==
    IF picked = "" THEN obj ELSE SetAttr(obj, "image_path", picked)

\* self.image_path = filedialog.askopenfilename(...)
StoreImagePath(obj, picked) == SetAttr(obj, "image_path", picked)

\* A variant that inserts at the start of the widget.
InsertEnd_AtStart(text, s) == s \o text

\* self.text_output.insert(tk.END, s)
InsertEnd(text, s) == text \o s

\* messagebox.showerror(title, message)
ShowError(title, message) == << [title |-> title, message |-> message] >>

\* The alternatives of (jpg|jpeg|png).
ImageExtensions == {"jpg", "jpeg", "png"}

\* The literal `lit` matches s at offset i (0-based), ignoring case.
MatchLiteralAt(s, i, lit) ==
    /\ i + Len(lit) <= Len(s)
    /\ \A k \in 1..Len(lit) : LowerChar(Char(s, i + k)) = LowerChar(Char(lit, k))

\* The offsets at which `.*` can stop when started at 0: `.` matches any
\* character except a newline (no re.DOTALL).
DotStarStops(s) == {i \in 0..Len(s) : \A k \in 1..i : Char(s, k) # NL}

\* `$` (no re.MULTILINE) matches at the end of the string and just before
\* a newline that is the last character of the string.
DollarAt(s, j) ==
    \/ j = Len(s)
    \/ j = Len(s) - 1 /\ Char(s, Len(s)) = NL

\* re.match(r".*\.(jpg|jpeg|png)$", s, re.IGNORECASE) is not None
MatchesImagePattern(s) ==
    \E i \in DotStarStops(s) : \E ext \in ImageExtensions :
        /\ MatchLiteralAt(s, i, "." \o ext)
        /\ DollarAt(s, i + 1 + Len(ext))

InvalidImageText == "Selected file is not a valid image."

\* The try body of select_image.  pick is what askopenfilename does: it
\* returns a path ("" when the dialog is cancelled) or raises.
SelectImageBody(obj, text, pick) ==
    IF pick.raised # NoExc
    THEN [attrs |-> obj, text |-> text, raised |-> pick.raised]
    ELSE LET stored == StoreImagePath(obj, pick.value)
             path == GetAttr(stored, "image_path")
         IN  IF path.raised # NoExc
             THEN [attrs |-> stored, text |-> text, raised |-> path.raised]
             ELSE IF path.value # ""
             THEN IF ~MatchesImagePattern(path.value)
                  THEN [attrs |-> stored, text |-> text,
                        raised |-> Exc("ValueError", InvalidImageText)]
                  ELSE [attrs |-> stored,
                        text |-> InsertEnd(text, "Selected Image: " \o path.value \o NL),
                        raised |-> NoExc]
             ELSE [attrs |-> stored, text |-> text, raised |-> NoExc]

\* A variant without the final `except Exception` clause.
SelectImageExcept_ValueErrorOnly(e) ==
    IF e = NoExc THEN [dialogs |-> << >>, escaped |-> NoExc]
    ELSE IF IsInstance(e, "ValueError")
         THEN [dialogs |-> ShowError("Invalid File", e.msg), escaped |-> NoExc]
    ELSE [dialogs |-> << >>, escaped |-> e]

\* except ValueError as e: ... except Exception as e: ...
SelectImageExcept(e) ==
    IF e = NoExc THEN [dialogs |-> << >>, escaped |-> NoExc]
    ELSE IF IsInstance(e, "ValueError")
         THEN [dialogs |-> ShowError("Invalid File", e.msg), escaped |-> NoExc]
    ELSE IF IsInstance(e, "Exception")
         THEN [dialogs |-> ShowError("File Selection Error",
                                     "Error selecting file: " \o e.msg),
               escaped |-> NoExc]
    ELSE [dialogs |-> << >>, escaped |-> e]

select_image(picks) ==
    \E pick \in picks :
        LET body == SelectImageBody(attrs, text_output, pick)
            handled == SelectImageExcept(body.raised)
        IN  /\ attrs' = body.attrs
            /\ text_output' = body.text
            /\ dialogs' = handled.dialogs
            /\ escaped' = handled.escaped
            /\ model_calls' = << >>
            /\ last' = [op |-> "select_image", pick |-> pick]
            /\ nActions' = nActions + 1

\* A variant of the guard that is always true.
RunGuard_Always(obj) == TRUE

\* if hasattr(self, 'image_path'):
RunGuard(obj) == HasAttr(obj, "image_path")

\* except Exception as e: messagebox.showerror(title, f"Error: {str(e)}")
RunExcept(title, shown, e) ==
    IF e = NoExc THEN [dialogs |-> shown, escaped |-> NoExc]
    ELSE IF IsInstance(e, "Exception")
         THEN [dialogs |-> shown \o ShowError(title, "Error: " \o e.msg),
               escaped |-> NoExc]
    ELSE [dialogs |-> shown, escaped |-> e]

\* The try body of run_facial_recognition.
FacialRecognitionBody(obj, text, up) ==
    IF RunGuard(obj)
    THEN LET path == GetAttr(obj, "image_path")
             result == FacialRecognitionModel_run_model(up)
         IN  IF path.raised # NoExc
             THEN [text |-> text, dialogs |-> << >>, calls |-> << >>,
                   raised |-> path.raised]
             ELSE [text |-> IF result.raised = NoExc
                            THEN InsertEnd(text, "Facial Recognition Result:" \o NL
                                                 \o result.value \o NL)
                            ELSE text,
                   dialogs |-> << >>,
                   calls |-> << [model |-> "FacialRecognitionModel",
                                 path |-> path.value, up |-> up,
                                 result |-> result] >>,
                   raised |-> result.raised]
    ELSE [text |-> text,
          dialogs |-> ShowError("Error", "Please select an image first!"),
          calls |-> << >>, raised |-> NoExc]

\* face_recognition.load_image_file(path): no file is named "", so on
\* that path the only outcome is FileNotFoundError.
FaceOutcomeOn(obj, up) ==
    (HasAttr(obj, "image_path") /\ obj["image_path"] = "")
        => up.exc.cls = "FileNotFoundError"

run_facial_recognition(ups) ==
    \E up \in {u \in ups : FaceOutcomeOn(attrs, u)} :
        LET body == FacialRecognitionBody(attrs, text_output, up)
            handled == RunExcept("Facial Recognition Error", body.dialogs, body.raised)
        IN  /\ text_output' = body.text
            /\ dialogs' = handled.dialogs
            /\ escaped' = handled.escaped
            /\ model_calls' = body.calls
            /\ last' = [op |-> "run_facial_recognition"]
            /\ nActions' = nActions + 1
            /\ UNCHANGED attrs

\* The try body of run_image_classification.
ImageClassificationBody(obj, text, up) ==
    IF RunGuard(obj)
    THEN LET model == ImageClassificationModel_init(up.ctor)
             path == GetAttr(obj, "image_path")
             result == ImageClassificationModel_run_model(model.self, up)
         IN  IF model.raised # NoExc
             THEN [text |-> text, dialogs |-> model.dialogs, calls |-> << >>,
                   raised |-> model.raised]
             ELSE IF path.raised # NoExc
             THEN [text |-> text, dialogs |-> model.dialogs, calls |-> << >>,
                   raised |-> path.raised]
             ELSE [text |-> IF result.raised = NoExc
                            THEN InsertEnd(text, "Image Classification Result:" \o NL
                                                 \o result.value \o NL)
                            ELSE text,
                   dialogs |-> model.dialogs,
                   calls |-> << [model |-> "ImageClassificationModel",
                                 path |-> path.value, up |-> up,
                                 result |-> result] >>,
                   raised |-> result.raised]
    ELSE [text |-> text,
          dialogs |-> ShowError("Error", "Please select an image first!"),
          calls |-> << >>, raised |-> NoExc]

\* image.load_img(path): no file is named "", so on that path the only
\* outcome is FileNotFoundError.
ClassificationOutcomeOn(obj, up) ==
    (HasAttr(obj, "image_path") /\ obj["image_path"] = "")
        => up.load_img.cls = "FileNotFoundError"

run_image_classification(ups) ==
    \E up \in {u \in ups : ClassificationOutcomeOn(attrs, u)} :
        LET body == ImageClassificationBody(attrs, text_output, up)
            handled == RunExcept("Image Classification Error", body.dialogs, body.raised)
        IN  /\ text_output' = body.text
            /\ dialogs' = handled.dialogs
            /\ escaped' = handled.escaped
            /\ model_calls' = body.calls
            /\ last' = [op |-> "run_image_classification"]
            /\ nActions' = nActions + 1
            /\ UNCHANGED attrs

\* The state after Application.__init__: no image_path attribute, an
\* empty text widget.
Init ==
    /\ attrs = << >>
    /\ text_output = ""
    /\ dialogs = << >>
    /\ model_calls = << >>
    /\ last = [op |-> "__init__"]
    /\ escaped = NoExc
    /\ nActions = 0

----------------------------------------------------------------------------
\* What the collaborators can do.

\* askopenfilename: a path, "" on cancel (some Tk builds give an empty
\* tuple, which is falsy like ""), or a Tcl error.
PickerOutcomes(paths) ==
    {Return(path) : path \in paths}
        \cup {Raise(Exc("TclError", "window was destroyed"))}

\* Paths the dialog hands back in the application runs.
AppPaths ==
    {"", "a.jpg", "A.JPG", "pic.jpeg", "x.PnG", ".png",
     "photo.gif", "noext", "a" \o NL \o "b.jpg", "photo.jpg" \o NL}

\* What face_recognition raises.
FaceFailures ==
    {Exc("FileNotFoundError", "[Errno 2] No such file or directory"),
     Exc("UnidentifiedImageError", "cannot identify image file")}

FaceOk(locations) == [exc |-> NoExc, locations |-> locations]
FaceFails(e) == [exc |-> e, locations |-> << >>]

AppFaceOutcomes ==
    {FaceOk(<< >>), FaceOk(<< <<10, 50, 60, 5>> >>)} \cup {FaceFails(e) : e \in FaceFailures}

\* What Keras raises while loading the image or predicting, and what
\* ResNet50(weights='imagenet') raises.
LoadImgFailures ==
    {Exc("FileNotFoundError", "[Errno 2] No such file or directory"),
     Exc("UnidentifiedImageError", "cannot identify image file")}
PredictFailures == {Exc("RuntimeError", "out of memory")}
CtorFailures == {Exc("RuntimeError", "weights could not be downloaded")}

Pred(name, num, den) == [id |-> "n0", name |-> name, score |-> [num |-> num, den |-> den]]

ExampleDecoded ==
    << Pred("cat", 9231, 10000), Pred("dog", 41, 1000), Pred("fox", 2, 1000) >>

\* The outcomes of one classification (constructor included) over the
\* decoded predictions in `decodeds`.
ClassificationOutcomes(decodeds) ==
    {[ctor |-> NoExc, load_img |-> NoExc, predict |-> NoExc, decoded |-> d] :
        d \in decodeds}
    \cup {[ctor |-> c, load_img |-> e, predict |-> NoExc, decoded |-> << >>] :
        c \in {NoExc} \cup CtorFailures, e \in LoadImgFailures}
    \cup {[ctor |-> c, load_img |-> NoExc, predict |-> NoExc, decoded |-> << >>] :
        c \in CtorFailures}
    \cup {[ctor |-> NoExc, load_img |-> NoExc, predict |-> e, decoded |-> << >>] :
        e \in PredictFailures}

AppClassificationOutcomes == ClassificationOutcomes({ExampleDecoded})

\* decode_predictions names each class once; the orders of names tried.
NameOrders == {<< "cat", "dog", "fox" >>, << "fox", "cat", "dog" >>}

\* The scores n / 2^ScoreBits, which a float holds exactly (and whose
\* product with 100 it holds exactly too), and some decimal ones.
ScoreUnit == 2 ^ ScoreBits
Scores ==
    {[num |-> n, den |-> ScoreUnit] : n \in 0..ScoreUnit}
        \cup {[num |-> 9231, den |-> 10000], [num |-> 41, den |-> 1000],
              [num |-> 2, den |-> 1000], [num |-> 2, den |-> 3]}

ScoreLeq(a, b) == a.num * b.den <= b.num * a.den

\* The sum of the scores of d is at most 1 (they are softmax outputs).
RECURSIVE SumNum(_, _)
SumNum(d, den) ==
    IF Len(d) = 0 THEN 0
    ELSE d[1].score.num * (den \div d[1].score.den) + SumNum(Tail(d), den)
CommonDen == 30000 * ScoreUnit
SumAtMostOne(d) == SumNum(d, CommonDen) <= CommonDen

\* The score of one more prediction after d: no larger than the ones
\* before it, the sum staying at most 1.
Ranked(d, e) ==
    /\ \A i \in 1..Len(d) : ScoreLeq(e.score, d[i].score)
    /\ SumAtMostOne(Append(d, e))

\* The decoded predictions of k classes named as in `names`, ranked by
\* descending score.
RECURSIVE DecodedsOfLen(_, _)
DecodedsOfLen(names, k) ==
    IF k = 0 THEN {<< >>}
    ELSE UNION {{Append(d, e) :
                    e \in {e \in {Pred(names[k], x.num, x.den) : x \in Scores} :
                              Ranked(d, e)}} :
                d \in DecodedsOfLen(names, k - 1)}

\* Decoded predictions of at most `top` classes.
Decodeds(top) == UNION {DecodedsOfLen(names, k) : names \in NameOrders, k \in 0..top}

\* Pixel coordinates, and the boxes (top, right, bottom, left) over them.
Coordinates == {0, 7, 123}
Boxes ==
    {box \in Coordinates \X Coordinates \X Coordinates \X Coordinates :
        box[1] < box[3] /\ box[4] < box[2]}
        \cup {<<10, 50, 60, 5>>}

\* Detection results of at most `most` faces.
FaceLocations(most) == UNION {[1..k -> Boxes] : k \in 0..most}

----------------------------------------------------------------------------
\* The event loop: any button, any number of times.

SelectImage ==
    /\ nActions < MaxActions
    /\ select_image(PickerOutcomes(AppPaths))

RunFacialRecognition ==
    /\ nActions < MaxActions
    /\ run_facial_recognition(AppFaceOutcomes)

RunImageClassification ==
    /\ nActions < MaxActions
    /\ run_image_classification(AppClassificationOutcomes)

Next == SelectImage \/ RunFacialRecognition \/ RunImageClassification

Spec == Init /\ [][Next]_vars

\* One selection, then one run of a model over every result the model's
\* library can give.
SelectOnce ==
    /\ nActions = 0
    /\ select_image({Return("a.jpg")})

DetectFaces ==
    /\ nActions = 1
    /\ run_facial_recognition({FaceOk(locs) : locs \in FaceLocations(MaxFaces)}
                                  \cup {FaceFails(e) : e \in FaceFailures})

Classify ==
    /\ nActions = 1
    /\ run_image_classification(ClassificationOutcomes(Decodeds(TopK)))

NextRunModel == SelectOnce \/ DetectFaces \/ Classify

SpecRunModel == Init /\ [][NextRunModel]_vars

----------------------------------------------------------------------------
\* Vocabulary of the properties.

RECURSIVE LowerStr(_)
LowerStr(s) ==
    IF Len(s) = 0 THEN "" ELSE LowerChar(Char(s, 1)) \o LowerStr(SubSeq(s, 2, Len(s)))

StartsWith(s, prefix) ==
    Len(prefix) <= Len(s) /\ SubSeq(s, 1, Len(prefix)) = prefix

EndsWith(s, suffix) ==
    Len(suffix) <= Len(s) /\ SubSeq(s, Len(s) - Len(suffix) + 1, Len(s)) = suffix

\* The path ends, case-insensitively, with .jpg, .jpeg or .png.
HasImageExtension(path) ==
    \E ext \in {".jpg", ".jpeg", ".png"} : EndsWith(LowerStr(path), ext)

\* The lines of a text: the pieces between its newlines.
RECURSIVE Lines(_)
Lines(s) ==
    IF \A i \in 1..Len(s) : Char(s, i) # NL THEN << s >>
    ELSE LET i == CHOOSE i \in 1..Len(s) :
                      Char(s, i) = NL /\ \A k \in 1..(i - 1) : Char(s, k) # NL
         IN  << SubSeq(s, 1, i - 1) >> \o Lines(SubSeq(s, i + 1, Len(s)))

IsDigit(c) == \E i \in 1..Len(Digits) : Char(Digits, i) = c

IsNumeral(s) == Len(s) > 0 /\ \A i \in 1..Len(s) : IsDigit(Char(s, i))

DigitValue(c) == (CHOOSE i \in 1..Len(Digits) : Char(Digits, i) = c) - 1

RECURSIVE NumeralValue(_)
NumeralValue(s) ==
    IF Len(s) = 0 THEN 0
    ELSE 10 * NumeralValue(SubSeq(s, 1, Len(s) - 1)) + DigitValue(Char(s, Len(s)))

\* s is a decimal with exactly two digits after the point and no needless
\* leading zero.
IsFixed2(s) ==
    /\ Len(s) >= 4
    /\ Char(s, Len(s) - 2) = "."
    /\ IsNumeral(SubSeq(s, 1, Len(s) - 3))
    /\ IsNumeral(SubSeq(s, Len(s) - 1, Len(s)))
    /\ (Len(s) > 4 => Char(s, 1) # "0")

\* The value of such a decimal, in hundredths.
Fixed2Hundredths(s) ==
    100 * NumeralValue(SubSeq(s, 1, Len(s) - 3)) + NumeralValue(SubSeq(s, Len(s) - 1, Len(s)))

Abs(n) == IF n < 0 THEN 0 - n ELSE n

RunOps == {"run_facial_recognition", "run_image_classification"}

SelectionReturned == last.op = "select_image" /\ last.pick.raised = NoExc

FaceCalls == {i \in 1..Len(model_calls) : model_calls[i].model = "FacialRecognitionModel"}
ClassificationCalls ==
    {i \in 1..Len(model_calls) : model_calls[i].model = "ImageClassificationModel"}

----------------------------------------------------------------------------
\* C1: a model is invoked only on a stored path that is non-empty and has
\* an accepted extension; after a rejected or cancelled selection a run
\* invokes no model.
C1_ModelOnlyOnAcceptedPath ==
    \A i \in 1..Len(model_calls) :
        model_calls[i].path # "" /\ HasImageExtension(model_calls[i].path)

\* C2: a selected path is accepted (its "Selected Image" line is shown and
\* no error is reported) if and only if it ends, case-insensitively, with
\* .jpg, .jpeg or .png.
C2_AcceptedIffImageExtension ==
    SelectionReturned =>
        ((dialogs = << >> /\ EndsWith(text_output, "Selected Image: " \o last.pick.value \o NL))
            <=> HasImageExtension(last.pick.value))

\* C3: every selected path that does not end with an accepted extension,
\* the empty string included, is rejected with the fixed message.
C3_RejectedWithFixedMessage ==
    SelectionReturned /\ ~HasImageExtension(last.pick.value) =>
        dialogs = << [title |-> "Invalid File",
                      message |-> "Selected file is not a valid image."] >>

\* C4: run_model never raises; a file-not-found failure gives the
\* file-not-found text, every other failure (a classifier that failed to
\* load included) the generic text of that model, and a success neither.
C4_RunModelFailsSoft ==
    /\ \A i \in 1..Len(model_calls) : model_calls[i].result.raised = NoExc
    /\ \A i \in FaceCalls :
          LET e == model_calls[i].up.exc
              text == model_calls[i].result.value
          IN  /\ e.cls = "FileNotFoundError" =>
                    text = "Error: File not found. Please select a valid image file."
              /\ e.cls \notin {"None", "FileNotFoundError"} =>
                    text = "Error in Facial Recognition: " \o e.msg
              /\ e.cls = "None" => ~StartsWith(text, "Error")
    /\ \A i \in ClassificationCalls :
          LET up == model_calls[i].up
              text == model_calls[i].result.value
          IN  /\ up.load_img.cls = "FileNotFoundError" =>
                    text = "Error: File not found. Please select a valid image file."
              /\ up.load_img.cls \notin {"None", "FileNotFoundError"} =>
                    text = "Error in Image Classification: " \o up.load_img.msg
              /\ up.load_img = NoExc /\ up.ctor # NoExc =>
                    StartsWith(text, "Error in Image Classification: ")
              /\ up.load_img = NoExc /\ up.ctor = NoExc /\ up.predict # NoExc =>
                    text = "Error in Image Classification: " \o up.predict.msg
              /\ up.load_img = NoExc /\ up.ctor = NoExc /\ up.predict = NoExc =>
                    ~StartsWith(text, "Error")

\* C4 witness: a classifier whose model failed to load was run on a file
\* that exists, and one whose file was missing.
C4_Witness ==
    \E i \in ClassificationCalls :
        /\ model_calls[i].up.ctor # NoExc
        /\ model_calls[i].up.load_img = NoExc
        /\ StartsWith(model_calls[i].result.value, "Error in Image Classification: ")

\* C5: no box gives "No face found"; otherwise one line per box, in input
\* order, "Top: <top>, Right: <right>, Bottom: <bottom>, Left: <left>",
\* joined by single newlines with none at the end.
C5_FaceFormatting ==
    \A i \in FaceCalls :
        LET locs == model_calls[i].up.locations
            text == model_calls[i].result.value
            lines == Lines(text)
        IN  model_calls[i].up.exc = NoExc =>
              /\ locs = << >> => text = "No face found"
              /\ locs = << <<10, 50, 60, 5>> >> =>
                    text = "Top: 10, Right: 50, Bottom: 60, Left: 5"
              /\ locs # << >> =>
                    /\ Len(lines) = Len(locs)
                    /\ \A k \in 1..Len(locs) :
                          lines[k] =
                              "Top: " \o IntStr(locs[k][1])
                                  \o ", Right: " \o IntStr(locs[k][2])
                                  \o ", Bottom: " \o IntStr(locs[k][3])
                                  \o ", Left: " \o IntStr(locs[k][4])

\* C5 witness: two different boxes were formatted.
C5_Witness ==
    \E i \in FaceCalls :
        /\ model_calls[i].up.exc = NoExc
        /\ Len(model_calls[i].up.locations) = 2
        /\ model_calls[i].up.locations[1] # model_calls[i].up.locations[2]
        /\ Len(Lines(model_calls[i].result.value)) = 2

\* C6: one line per entry, in input order, "<label>: <p>%" where p is
\* confidence * 100 written with exactly two decimals and within half a
\* hundredth of it; lines joined by single newlines; no entry, no text.
C6_ClassificationFormatting ==
    \A i \in ClassificationCalls :
        LET up == model_calls[i].up
            d == up.decoded
            text == model_calls[i].result.value
            lines == Lines(text)
        IN  up.ctor = NoExc /\ up.load_img = NoExc /\ up.predict = NoExc =>
              /\ d = << >> => text = ""
              /\ d = ExampleDecoded =>
                    text = "cat: 92.31%" \o NL \o "dog: 4.10%" \o NL \o "fox: 0.20%"
              /\ d # << >> =>
                    /\ Len(lines) = Len(d)
                    /\ \A k \in 1..Len(d) :
                          LET line == lines[k]
                              head == d[k].name \o ": "
                              p == SubSeq(line, Len(head) + 1, Len(line) - 1)
                          IN  /\ StartsWith(line, head)
                              /\ EndsWith(line, "%")
                              /\ IsFixed2(p)
                              /\ 2 * Abs(Fixed2Hundredths(p) * d[k].score.den
                                             - 10000 * d[k].score.num)
                                    <= d[k].score.den

\* C6 witness: three entries were formatted, one of them a score that
\* does not fall on a hundredth of a percent.
C6_Witness ==
    \E i \in ClassificationCalls :
        LET d == model_calls[i].up.decoded
        IN  /\ model_calls[i].up.ctor = NoExc
            /\ Len(d) = 3
            /\ (10000 * d[1].score.num) % d[1].score.den # 0
            /\ Len(Lines(model_calls[i].result.value)) = 3

\* C7: no exception leaves a callback, whatever the file dialog or a model
\* does, and afterwards every button can be pressed again.
C7_NoErrorIsFatal ==
    /\ escaped = NoExc
    /\ nActions < MaxActions =>
          /\ ENABLED SelectImage
          /\ ENABLED RunFacialRecognition
          /\ ENABLED RunImageClassification

\* C7 witness: the file dialog failed, the callback reported it and
\* returned.
C7_Witness ==
    /\ last.op = "select_image"
    /\ last.pick.raised # NoExc
    /\ Len(dialogs) = 1
    /\ escaped = NoExc
    /\ nActions < MaxActions

\* C8: a selection for which the file dialog returns a value stores
\* exactly that value as the one stored path, whatever was stored before;
\* the run callbacks leave the stored path alone.
C8_SelectionOverwrites ==
    [][/\ (last'.op = "select_image" /\ last'.pick.raised = NoExc) =>
              /\ DOMAIN attrs' = {"image_path"}
              /\ attrs'["image_path"] = last'.pick.value
       /\ last'.op \in RunOps => attrs' = attrs]_vars

\* C8 witness: an accepted selection was overwritten by a cancelled one.
C8_Witness ==
    /\ last.op = "select_image"
    /\ text_output = "Selected Image: a.jpg" \o NL
    /\ HasAttr(attrs, "image_path")
    /\ attrs["image_path"] = ""

\* C9: while no path is stored (no selection has been made), a run shows
\* "Please select an image first!", invokes no model and changes neither
\* the display text nor the stored path.
C9_RunBeforeSelection ==
    [][(~HasAttr(attrs, "image_path") /\ last'.op \in RunOps) =>
          /\ dialogs' = << [title |-> "Error",
                            message |-> "Please select an image first!"] >>
          /\ model_calls' = << >>
          /\ text_output' = text_output
          /\ attrs' = attrs]_vars

\* C9 witness: both runs were tried before any selection.
C9_Witness ==
    /\ ~HasAttr(attrs, "image_path")
    /\ last.op = "run_image_classification"
    /\ nActions = 2
    /\ dialogs = << [title |-> "Error", message |-> "Please select an image first!"] >>

\* C10: the display text only grows at its end: an accepted selection
\* appends the line "Selected Image: <path>", a run with a stored path
\* appends the model's header line followed by the model's text, and a
\* rejected, cancelled or failed selection appends nothing.
C10_DisplayAppendOnly ==
    [][/\ StartsWith(text_output', text_output)
       /\ (last'.op = "select_image" /\ last'.pick.raised = NoExc
             /\ last'.pick.value # "" /\ dialogs' = << >>) =>
              text_output' = text_output \o "Selected Image: " \o last'.pick.value \o NL
       /\ (last'.op = "select_image"
             /\ (last'.pick.raised # NoExc \/ last'.pick.value = "" \/ dialogs' # << >>)) =>
              text_output' = text_output
       /\ (last'.op = "run_facial_recognition" /\ HasAttr(attrs, "image_path")) =>
              /\ Len(model_calls') = 1
              /\ text_output' = text_output \o "Facial Recognition Result:" \o NL
                                    \o model_calls'[1].result.value \o NL
       /\ (last'.op = "run_image_classification" /\ HasAttr(attrs, "image_path")) =>
              /\ Len(model_calls') = 1
              /\ text_output' = text_output \o "Image Classification Result:" \o NL
                                    \o model_calls'[1].result.value \o NL]_vars

\* C10 witness: a selection line followed by two result blocks.
C10_Witness ==
    text_output = "Selected Image: a.jpg" \o NL
                      \o "Facial Recognition Result:" \o NL \o "No face found" \o NL
                      \o "Image Classification Result:" \o NL
                      \o "cat: 92.31%" \o NL \o "dog: 4.10%" \o NL \o "fox: 0.20%" \o NL

====
